---- MODULE Spec2Model ----
(***************************************************************************)
(* Model of assignment_2/github_analyser.py: the Streamlit script that     *)
(* builds a GitHub code-search query from optional filters, searches,      *)
(* fetches the raw content of the first results and sends each snippet to  *)
(* a chat model with a prompt preset.                                      *)
(*                                                                         *)
(* Text that the code only passes around (widget contents, prompt presets) *)
(* is a TLA+ string; text that the code rewrites (URLs) is a sequence of   *)
(* one-character strings so that str.replace is computed, not assumed.     *)
(* Python values that may be None are records tagged with a "type" field.  *)
(***************************************************************************)
EXTENDS Integers, Sequences, FiniteSets, TLC

\* ------------------------------------------------------------------ bounds
MaxNum == 2          \* largest value typed into a number_input
MaxItems == 4        \* largest number of items in a search response
ShortBody == 40      \* length of a short raw file
LongBody == 3000     \* length of a raw file longer than the snippet limit

\* ------------------------------------------------------- program constants
PROCESS_LIMIT == 3     \* search_results["items"][:3]
SNIPPET_LIMIT == 2500  \* code_response.text[:2500]

\* ------------------------------------------------------------ Python values
None == [type |-> "NoneType"]

PyStr(s) == [type |-> "str", value |-> s]

PyDate(y, m, d) == [type |-> "date", year |-> y, month |-> m, day |-> d]

\* bool(v) for the values the script tests with `if v:`
Truthy(v) ==
    CASE v.type = "NoneType" -> FALSE
      [] v.type = "str"      -> v.value # ""
      [] v.type = "dict"     -> TRUE     \* a parsed search response is a non-empty dict
      [] v.type = "date"     -> TRUE     \* datetime.date defines no __bool__
      [] OTHER               -> TRUE

Min(a, b) == IF a <= b THEN a ELSE b

\* seq[:n]
Slice(seq, n) == SubSeq(seq, 1, Min(Len(seq), n))

\* --------------------------------------------------------------- URL text
GITHUB_HOST == <<"h", "t", "t", "p", "s", ":", "/", "/", "g", "i", "t", "h", "u", "b", ".", "c", "o", "m">>

RAW_HOST == <<"h", "t", "t", "p", "s", ":", "/", "/", "r", "a", "w", ".", "g", "i", "t", "h", "u", "b", "u", "s", "e", "r", "c", "o", "n", "t", "e", "n", "t", ".", "c", "o", "m">>

BLOB == <<"/", "b", "l", "o", "b">>

SLASH == <<"/">>

\* str.replace(old, new): every non-overlapping occurrence, left to right
RECURSIVE Replace(_, _, _)
Replace(s, old, new) ==
    IF Len(s) < Len(old) THEN s
    ELSE IF SubSeq(s, 1, Len(old)) = old
         THEN new \o Replace(SubSeq(s, Len(old) + 1, Len(s)), old, new)
         ELSE <<s[1]>> \o Replace(Tail(s), old, new)

\* item["html_url"].replace("https://github.com", "https://raw.githubusercontent.com").replace("/blob", "")
RawUrl(html_url) == Replace(Replace(html_url, GITHUB_HOST, RAW_HOST), BLOB, <<>>)

\* ------------------------------------------------------------ prompt presets
ComplexityLevels == {"basic", "detailed", "advanced"}

DOCUMENTATION_PROMPTS ==
    [c \in ComplexityLevels |->
        CASE c = "basic"    -> "Generate comprehensive documentation for this code."
          [] c = "detailed" -> "Generate comprehensive documentation for this code. Include: 1-4"
          [] c = "advanced" -> "As an expert developer and technical writer, generate thorough documentation for this code. Include: 1-8"]

AI_DETECTION_PROMPTS ==
    [c \in ComplexityLevels |->
        CASE c = "basic"    -> "Analyze this code for signs of AI generation."
          [] c = "detailed" -> "Analyze this code for signs of AI generation. Consider: 1-4"
          [] c = "advanced" -> "As an expert in code analysis and AI-generated content detection, thoroughly examine this code. 1-4, conclude"]

\* dict.get(key, default)
Get(d, key, default) == IF key \in DOMAIN d THEN d[key] ELSE default

\* prompt chosen by the Analyze handler from the two selectboxes of the analysis tab
SelectPrompt(mode, level) ==
    IF mode = "Documentation Generator"
    THEN Get(DOCUMENTATION_PROMPTS, level, DOCUMENTATION_PROMPTS["detailed"])
    ELSE Get(AI_DETECTION_PROMPTS, level, AI_DETECTION_PROMPTS["detailed"])

\* prompt shown under "Selected Prompt:" in the Prompt Engineering tab
SelectedPrompt(type, complexity) ==
    IF type = "Documentation"
    THEN DOCUMENTATION_PROMPTS[complexity]
    ELSE AI_DETECTION_PROMPTS[complexity]

\* ------------------------------------------------------------ filter builder
Digit2(n) == <<(n \div 10) % 10, n % 10>>

\* last_pushed.strftime('%Y-%m-%d')
Strftime(d) ==
    <<(d.year \div 1000) % 10, (d.year \div 100) % 10>> \o Digit2(d.year)
        \o <<"-">> \o Digit2(d.month) \o <<"-">> \o Digit2(d.day)

\* BuildFilters with the numeric tests written `>= 0` instead of `> 0`
BuildFilters_NonStrict(ext, dir, size, followers, pushed, lang) ==
    LET f0 == <<>>
        f1 == IF ext # "" THEN Append(f0, <<"extension:", ext>>) ELSE f0
        f2 == IF dir # "" THEN Append(f1, <<"path:", dir>>) ELSE f1
        f3 == IF size >= 0 THEN Append(f2, <<"repo:>=", size>>) ELSE f2
        f4 == IF followers >= 0 THEN Append(f3, <<"user:>=", followers, " followers">>) ELSE f3
        f5 == IF Truthy(pushed) THEN Append(f4, <<"pushed:>=", Strftime(pushed)>>) ELSE f4
        f6 == IF lang # "" THEN Append(f5, <<"language:", lang>>) ELSE f5
    IN  f6

\* the six `if ...: QUALITY_FILTERS.append(...)` statements, in program order
BuildFilters(ext, dir, size, followers, pushed, lang) ==
    LET f0 == <<>>
        f1 == IF ext # "" THEN Append(f0, <<"extension:", ext>>) ELSE f0
        f2 == IF dir # "" THEN Append(f1, <<"path:", dir>>) ELSE f1
        f3 == IF size > 0 THEN Append(f2, <<"repo:>=", size>>) ELSE f2
        f4 == IF followers > 0 THEN Append(f3, <<"user:>=", followers, " followers">>) ELSE f3
        f5 == IF Truthy(pushed) THEN Append(f4, <<"pushed:>=", Strftime(pushed)>>) ELSE f4
        f6 == IF lang # "" THEN Append(f5, <<"language:", lang>>) ELSE f5
    IN  f6

\* ' '.join(tokens)
RECURSIVE JoinSpace(_)
JoinSpace(tokens) ==
    IF Len(tokens) = 0 THEN <<>>
    ELSE IF Len(tokens) = 1 THEN <<tokens[1]>>
    ELSE <<tokens[1], " ">> \o JoinSpace(Tail(tokens))

\* f"{search_query} {' '.join(QUALITY_FILTERS)}"
EnhancedQuery(query, tokens) == <<query, " ">> \o JoinSpace(tokens)

\* ------------------------------------------------------- the GitHub side
OCTO == <<"o", "c", "t", "o">>

REPO == <<"r", "e", "p", "o">>

BLOBS == <<"b", "l", "o", "b", "s">>

MAIN == <<"m", "a", "i", "n">>

DOT_PY == <<".", "p", "y">>

\* html_url of a code-search item: https://github.com/OWNER/REPO/blob/REF/PATH
HtmlUrl(owner, repo, ref, path) ==
    GITHUB_HOST \o SLASH \o owner \o SLASH \o repo \o BLOB \o SLASH \o ref \o SLASH \o path

Item(owner, repo, ref, path) ==
    [owner |-> owner, repo |-> repo, ref |-> ref, path |-> path,
     html_url |-> HtmlUrl(owner, repo, ref, path)]

\* a parsed 200 response of the code-search endpoint
SearchResponse(items) == [type |-> "dict", total_count |-> Len(items), items |-> items]

RECURSIVE FileStem(_)
FileStem(k) == IF k = 0 THEN <<>> ELSE <<"a">> \o FileStem(k - 1)

\* k-th file of an ordinary repository: a.py, aa.py, aaa.py, ...
PlainItem(k) == Item(OCTO, REPO, MAIN, FileStem(k) \o DOT_PY)

PlainResponse(n) == SearchResponse([k \in 1..n |-> PlainItem(k)])

Owners == {OCTO, <<"b", "l", "o", "b">>}

Repos == {REPO, BLOBS}

Refs == {MAIN, <<"v", "1">>}

Paths == {<<"f", ".", "p", "y">>,
          <<"b", "l", "o", "b", "b", "y", ".", "p", "y">>,
          <<"m", "y", "b", "l", "o", "b", ".", "p", "y">>,
          <<"l", "i", "b", "/", "b", "l", "o", "b", "s", "/", "a", ".", "p", "y">>}

\* outcome of one HTTP GET: an exception raised by the client, or a response
Raised == [exc |-> TRUE, status |-> 0, len |-> 0]

Response(status, len) == [exc |-> FALSE, status |-> status, len |-> len]

SearchOutcomes == {Raised} \cup {Response(s, 0) : s \in {200, 403, 422, 503}}

FetchOutcomes ==
    {Raised} \cup {Response(200, l) : l \in {ShortBody, LongBody}}
             \cup {Response(s, 0) : s \in {404, 500}}

\* outcome of llm.invoke: an exception, or a message with some content
LlmOutcomes == {[exc |-> TRUE, content |-> ""],
                [exc |-> FALSE, content |-> ""],
                [exc |-> FALSE, content |-> "analysis text"]}

\* ------------------------------------------------------------------ state
VARIABLES
    file_extension, directory_path, min_repo_size, min_followers,
    last_pushed, language_filter, search_query,   \* widgets of the analysis tab
    analysis_mode, prompt_level,                  \* selectboxes of the analysis tab
    analysis_type, prompt_complexity,             \* st.session_state fields (radios of the prompt tab)
    world,                                        \* what the search endpoint answers with on 200
    QUALITY_FILTERS, enhanced_query, prompt, selected_prompt,
    search_results, idx, raw_url, code_snippet,
    pc,                                           \* position of the script run
    log,                                          \* outbound calls and their returns, in order
    ui                                            \* messages rendered so far

widgets == <<file_extension, directory_path, min_repo_size, min_followers,
             last_pushed, language_filter, search_query,
             analysis_mode, prompt_level, analysis_type, prompt_complexity, world>>

locals == <<QUALITY_FILTERS, enhanced_query, prompt, selected_prompt,
            search_results, idx, raw_url, code_snippet>>

vars == <<widgets, locals, pc, log, ui>>

Event(op, item, detail) == [op |-> op, item |-> item, detail |-> detail]

Msg(kind, text, item) == [kind |-> kind, text |-> text, item |-> item]

AnalysisModes == {"Documentation Generator", "AI Code Detection"}

AnalysisTypes == {"Documentation", "AI Detection"}

Dates == {None, PyDate(2020, 1, 1), PyDate(2024, 11, 5)}

StartOfRun ==
    /\ QUALITY_FILTERS = <<>>
    /\ enhanced_query = <<>>
    /\ prompt = ""
    /\ selected_prompt = ""
    /\ search_results = None
    /\ idx = 0
    /\ raw_url = <<>>
    /\ code_snippet = None
    /\ pc = "idle"
    /\ log = <<>>
    /\ ui = <<>>

DefaultFilters ==
    /\ file_extension = ""
    /\ directory_path = ""
    /\ min_repo_size = 0
    /\ min_followers = 0
    /\ last_pushed = None
    /\ language_filter = ""

DefaultSelectors ==
    /\ analysis_mode = "Documentation Generator"
    /\ prompt_level = "basic"
    /\ analysis_type = "Documentation"
    /\ prompt_complexity = "basic"

\* any selector combination, any result count, default filters
InitPipeline ==
    /\ DefaultFilters
    /\ search_query \in {"", "cnn"}
    /\ analysis_mode \in AnalysisModes
    /\ prompt_level \in ComplexityLevels
    /\ analysis_type \in AnalysisTypes
    /\ prompt_complexity \in ComplexityLevels
    /\ world \in {PlainResponse(n) : n \in 0..MaxItems}
    /\ StartOfRun

\* any filter combination, one result
InitFilters ==
    /\ file_extension \in {"", ".py"}
    /\ directory_path \in {"", "/src/"}
    /\ min_repo_size \in 0..MaxNum
    /\ min_followers \in 0..MaxNum
    /\ last_pushed \in Dates
    /\ language_filter \in {"", "Python"}
    /\ search_query \in {"", "cnn"}
    /\ DefaultSelectors
    /\ world = PlainResponse(1)
    /\ StartOfRun

\* one result whose URL segments vary
InitUrl ==
    /\ DefaultFilters
    /\ search_query = "cnn"
    /\ DefaultSelectors
    /\ world \in {SearchResponse(<<Item(o, r, b, p)>>) :
                    o \in Owners, r \in Repos, b \in Refs, p \in Paths}
    /\ StartOfRun

Init == InitPipeline \/ InitFilters \/ InitUrl

\* --------------------------------------------------------------- functions
\* raise_for_status that only raises for server errors
RaisesForStatus_ServerOnly(status) == status >= 500 /\ status < 600

\* response.raise_for_status(): HTTPError for 4xx and 5xx
RaisesForStatus(status) == status >= 400 /\ status < 600

\* search_github_code(query): one GET; a RequestException is caught, reported
\* with st.error and turned into None
SearchGithubCode(query, out, body) ==
    LET failed == out.exc \/ RaisesForStatus(out.status)
    IN  [calls |-> <<Event("search", 0, query), Event("search_ret", 0, out)>>,
         msgs  |-> IF failed THEN <<Msg("error", "GitHub API Error", 0)>> ELSE <<>>,
         ret   |-> IF failed THEN None ELSE body]

\* analyze_with_llm(code_snippet, prompt), after llm.invoke came back with out:
\* any Exception is caught, reported with st.error and turned into None
AnalyzeWithLlm(out, item) ==
    [msgs |-> IF out.exc THEN <<Msg("error", "OpenAI API Error", item)>> ELSE <<>>,
     ret  |-> IF out.exc THEN None ELSE PyStr(out.content)]

\* `if search_results and "items" in search_results`
HasItems(results) == Truthy(results) /\ "items" \in DOMAIN results

\* the loop without the [:3] slice
Batch_NoLimit(items) == items

\* search_results["items"][:3]
Batch(items) == Slice(items, PROCESS_LIMIT)

\* the status test written `!= 404`
ShouldAnalyze_Not404(status) == status # 404

\* `if code_response.status_code == 200`
ShouldAnalyze(status) == status = 200

\* code_response.text[:2500]; a text is the URL it was served from and its length
Snippet(text) == [type |-> "str", url |-> text.url, len |-> Min(text.len, SNIPPET_LIMIT)]

\* position after the body of the for loop ran for item i
AfterItem(i, results) == IF i < Len(Batch(results.items)) THEN "fetch" ELSE "done"

\* ----------------------------------------------------------------- actions
\* One script run with "Analyze Code" pressed, up to the search request:
\* the prompt tab, the filter builder, the empty-query check, the prompt choice.
ClickAnalyze ==
    /\ pc = "idle"
    /\ selected_prompt' = SelectedPrompt(analysis_type, prompt_complexity)
    /\ QUALITY_FILTERS' = BuildFilters(file_extension, directory_path, min_repo_size,
                                       min_followers, last_pushed, language_filter)
    /\ IF search_query = ""
       THEN /\ ui' = Append(ui, Msg("warning", "Please enter a search query", 0))
            /\ pc' = "done"
            /\ UNCHANGED <<enhanced_query, prompt>>
       ELSE /\ enhanced_query' = EnhancedQuery(search_query, QUALITY_FILTERS')
            /\ prompt' = SelectPrompt(analysis_mode, prompt_level)
            /\ ui' = Append(ui, Msg("write", "Enhanced Query", 0))
            /\ pc' = "search"
    /\ UNCHANGED <<widgets, search_results, idx, raw_url, code_snippet, log>>

\* search_github_code(enhanced_query) and the test of its result
Search ==
    /\ pc = "search"
    /\ \E out \in SearchOutcomes :
         LET r == SearchGithubCode(enhanced_query, out, world)
         IN  /\ search_results' = r.ret
             /\ log' = log \o r.calls
             /\ IF HasItems(r.ret)
                THEN /\ ui' = ui \o r.msgs \o <<Msg("success", "Found results", r.ret.total_count)>>
                     /\ idx' = 1
                     /\ pc' = AfterItem(0, r.ret)
                ELSE /\ ui' = ui \o r.msgs \o <<Msg("error", "No results found or error in search", 0)>>
                     /\ idx' = idx
                     /\ pc' = "done"
    /\ UNCHANGED <<widgets, QUALITY_FILTERS, enhanced_query, prompt, selected_prompt,
                   raw_url, code_snippet>>

\* top of the loop body: the raw URL and requests.get(raw_url)
FetchRaw ==
    /\ pc = "fetch"
    /\ raw_url' = RawUrl(Batch(search_results.items)[idx].html_url)
    /\ log' = Append(log, Event("fetch", idx, raw_url'))
    /\ pc' = "fetch_wait"
    /\ UNCHANGED <<widgets, QUALITY_FILTERS, enhanced_query, prompt, selected_prompt,
                   search_results, idx, code_snippet, ui>>

\* requests.get(raw_url) comes back: it is outside any try, so an exception
\* of the HTTP client leaves main()
FetchReturn ==
    /\ pc = "fetch_wait"
    /\ \E out \in FetchOutcomes :
         /\ log' = Append(log, Event("fetch_ret", idx, out))
         /\ IF out.exc
            THEN /\ pc' = "aborted"
                 /\ UNCHANGED <<idx, code_snippet, ui>>
            ELSE IF ShouldAnalyze(out.status)
            THEN /\ code_snippet' = Snippet([url |-> raw_url, len |-> out.len])
                 /\ ui' = Append(ui, Msg("code", "GitHub Code Retrieved", idx))
                 /\ pc' = "analyze"
                 /\ idx' = idx
            ELSE /\ ui' = Append(ui, Msg("error", "Failed to retrieve code content", idx))
                 /\ pc' = AfterItem(idx, search_results)
                 /\ idx' = idx + 1
                 /\ UNCHANGED code_snippet
    /\ UNCHANGED <<widgets, QUALITY_FILTERS, enhanced_query, prompt, selected_prompt,
                   search_results, raw_url>>

\* analyze_with_llm: llm.invoke(f"{prompt}\n\n{code_snippet}")
AnalyzeCall ==
    /\ pc = "analyze"
    /\ log' = Append(log, Event("llm", idx, <<prompt, "\n\n", code_snippet>>))
    /\ pc' = "llm_wait"
    /\ UNCHANGED <<widgets, locals, ui>>

\* llm.invoke comes back; analyze_with_llm returns; the analysis tab is filled
AnalyzeReturn ==
    /\ pc = "llm_wait"
    /\ \E out \in LlmOutcomes :
         LET r == AnalyzeWithLlm(out, idx)
         IN  /\ log' = Append(log, Event("llm_ret", idx, out))
             /\ ui' = ui \o r.msgs \o
                        <<IF Truthy(r.ret)
                          THEN Msg("write", r.ret.value, idx)
                          ELSE Msg("error", "Failed to analyze code.", idx)>>
    /\ pc' = AfterItem(idx, search_results)
    /\ idx' = idx + 1
    /\ UNCHANGED <<widgets, QUALITY_FILTERS, enhanced_query, prompt, selected_prompt,
                   search_results, raw_url, code_snippet>>

Next == ClickAnalyze \/ Search \/ FetchRaw \/ FetchReturn \/ AnalyzeCall \/ AnalyzeReturn

Spec == Init /\ [][Next]_vars

\* ------------------------------------------------------- reading the log
Positions(op) == {p \in 1..Len(log) : log[p].op = op}

ItemPositions(op, k) == {p \in Positions(op) : log[p].item = k}

Fetched(k) == ItemPositions("fetch", k) # {}

Analyzed(k) == ItemPositions("llm", k) # {}

\* the fetch of item k came back with a response of this status
FetchStatusIs(k, status) ==
    \E p \in ItemPositions("fetch_ret", k) :
        ~log[p].detail.exc /\ log[p].detail.status = status

FetchGot200(k) == FetchStatusIs(k, 200)

FetchGotOtherStatus(k) ==
    \E p \in ItemPositions("fetch_ret", k) :
        ~log[p].detail.exc /\ log[p].detail.status # 200

FetchRaised(k) == \E p \in ItemPositions("fetch_ret", k) : log[p].detail.exc

AnalyzerFailed(k) ==
    \E p \in ItemPositions("llm_ret", k) :
        log[p].detail.exc \/ log[p].detail.content = ""

Shown(kind, text, k) == \E m \in 1..Len(ui) : ui[m] = Msg(kind, text, k)

ShownKind(kind) == \E m \in 1..Len(ui) : ui[m].kind = kind

SearchFailed ==
    \E p \in Positions("search_ret") :
        log[p].detail.exc \/ log[p].detail.status < 200 \/ log[p].detail.status > 299

SearchSucceeded ==
    \E p \in Positions("search_ret") :
        ~log[p].detail.exc /\ log[p].detail.status = 200

Terminal == pc \in {"done", "aborted"}

\* number of items one Analyze action may process: min(n, 3)
BatchSize == IF Len(world.items) < 3 THEN Len(world.items) ELSE 3

\* ----------------------------------------------------------------- claims

\* C1: the filter builder returns exactly the subsequence of
\* [extension, path, repo, user, pushed, language] tokens that keeps one token
\* per non-default field (text non-empty, number > 0, date filter enabled),
\* each in its fixed textual shape; all defaults give the empty list.
ExpectedDate(d) ==
    <<d.year \div 1000, (d.year % 1000) \div 100, (d.year % 100) \div 10, d.year % 10, "-",
      d.month \div 10, d.month % 10, "-", d.day \div 10, d.day % 10>>

ExpectedCandidates ==
    <<[keep |-> file_extension # "", tok |-> <<"extension:", file_extension>>],
      [keep |-> directory_path # "", tok |-> <<"path:", directory_path>>],
      [keep |-> min_repo_size > 0, tok |-> <<"repo:>=", min_repo_size>>],
      [keep |-> min_followers > 0, tok |-> <<"user:>=", min_followers, " followers">>],
      [keep |-> last_pushed # None,
       tok |-> <<"pushed:>=", IF last_pushed # None THEN ExpectedDate(last_pushed) ELSE <<>>>>],
      [keep |-> language_filter # "", tok |-> <<"language:", language_filter>>]>>

Kept(c) == c.keep

ExpectedFilters ==
    LET kept == SelectSeq(ExpectedCandidates, Kept)
    IN  [i \in 1..Len(kept) |-> kept[i].tok]

SameTokens(a, b) ==
    /\ Len(a) = Len(b)
    /\ \A i \in 1..Len(a) :
         /\ Len(a[i]) = Len(b[i])
         /\ a[i][1] = b[i][1]
         /\ a[i] = b[i]

C1_FilterTokens == pc # "idle" => SameTokens(QUALITY_FILTERS, ExpectedFilters)

C1_Witness ==
    /\ pc # "idle"
    /\ Len(QUALITY_FILTERS) = 3
    /\ file_extension # "" /\ min_repo_size = 0 /\ min_followers > 0 /\ last_pushed # None

\* C2: the raw-content fetches of one Analyze action are issued only for the
\* first min(n, 3) items of the response, in response order; no item at index
\* 3 or later is fetched or analyzed, and a run that reaches the end of the
\* loop has fetched exactly those items.
C2_OnlyFirstThree ==
    LET fetches == SelectSeq(log, LAMBDA e : e.op = "fetch")
    IN  /\ Len(fetches) <= BatchSize
        /\ \A j \in 1..Len(fetches) :
             /\ fetches[j].item = j
             /\ fetches[j].detail = RawUrl(world.items[j].html_url)
        /\ \A p \in Positions("llm") : log[p].item <= BatchSize
        /\ (pc = "done" /\ SearchSucceeded) => Len(fetches) = BatchSize

C2_Witness ==
    /\ pc = "done"
    /\ Len(world.items) > 3
    /\ Cardinality(Positions("fetch")) = 3
    /\ Cardinality(Positions("llm")) = 3

\* C3 (as claimed): when the fetch of one item returns a non-200 status, that
\* item shows a fetch error and gets no analyzer call, and every other item of
\* the batch is still fetched and, when its own fetch returned 200, analyzed.
C3_Non200SkipsOnlyThatItem ==
    Terminal =>
        \A k \in 1..BatchSize :
            FetchGotOtherStatus(k) =>
                /\ Shown("error", "Failed to retrieve code content", k)
                /\ ~Analyzed(k)
                /\ \A j \in (1..BatchSize) \ {k} :
                     /\ Fetched(j)
                     /\ FetchGot200(j) => Analyzed(j)

\* C4 (as claimed): an exception raised by the HTTP client while fetching one
\* item's raw content is a per-item failure: the item is reported as failed,
\* the run is not aborted and the remaining items are still fetched.
C4_TransportErrorIsPerItem ==
    \A k \in 1..BatchSize :
        FetchRaised(k) =>
            /\ pc # "aborted"
            /\ Shown("error", "Failed to retrieve code content", k)
            /\ Terminal => \A j \in 1..BatchSize : Fetched(j)

\* C5 (as claimed): when the analyzer raises or returns an empty response for
\* one item, that item's panel shows an analysis error, no exception leaves
\* the batch loop and the remaining items are still fetched and analyzed.
C5_AnalyzerFailureIsPerItem ==
    Terminal =>
        \A k \in 1..BatchSize :
            AnalyzerFailed(k) =>
                /\ Shown("error", "Failed to analyze code.", k)
                /\ pc # "aborted"
                /\ \A j \in (1..BatchSize) \ {k} :
                     /\ Fetched(j)
                     /\ FetchGot200(j) => Analyzed(j)

\* C6 (as claimed): a successful search with 0 items causes no fetch and no
\* analyzer call and shows the "no results" state, not a success state.
C6_EmptyResultShowsNoResults ==
    (pc = "done" /\ SearchSucceeded /\ Len(world.items) = 0) =>
        /\ Positions("fetch") = {}
        /\ Positions("llm") = {}
        /\ Shown("error", "No results found or error in search", 0)
        /\ ~ShownKind("success")

C8_RawUrlTransform ==
    \A p \in Positions("fetch") :
        LET item == world.items[log[p].item]
        IN  log[p].detail = RAW_HOST \o SLASH \o item.owner \o SLASH \o item.repo
                                \o SLASH \o item.ref \o SLASH \o item.path

\* C9: the items are processed one at a time in response order: each call is
\* followed by its own return before anything else is issued, the fetch of
\* item k+1 directly follows the end of item k, the analyzer is called only
\* right after that item's fetch returned 200 and with that item's snippet,
\* and no item is fetched or analyzed twice.
C9_Sequential ==
    \A p \in 1..Len(log) :
        /\ log[p].op = "fetch" =>
             /\ p > 1
             /\ \/ log[p-1].op = "search_ret" /\ log[p].item = 1
                \/ /\ log[p-1].op = "fetch_ret"
                   /\ ~log[p-1].detail.exc /\ log[p-1].detail.status # 200
                   /\ log[p].item = log[p-1].item + 1
                \/ log[p-1].op = "llm_ret" /\ log[p].item = log[p-1].item + 1
             /\ \A q \in 1..(p-1) : log[q].op = "fetch" => log[q].item < log[p].item
        /\ log[p].op = "fetch_ret" =>
             p > 1 /\ log[p-1].op = "fetch" /\ log[p-1].item = log[p].item
        /\ log[p].op = "llm" =>
             /\ p > 2
             /\ log[p-1].op = "fetch_ret" /\ log[p-1].item = log[p].item
             /\ ~log[p-1].detail.exc /\ log[p-1].detail.status = 200
             /\ log[p].detail[3].url = log[p-2].detail
             /\ log[p].detail[3].len =
                    (IF log[p-1].detail.len > 2500 THEN 2500 ELSE log[p-1].detail.len)
             /\ \A q \in 1..(p-1) : log[q].op = "llm" => log[q].item < log[p].item
        /\ log[p].op = "llm_ret" =>
             p > 1 /\ log[p-1].op = "llm" /\ log[p-1].item = log[p].item

C9_Witness ==
    /\ pc = "done"
    /\ Cardinality(Positions("fetch")) = 3
    /\ Cardinality(Positions("llm")) = 2
    /\ FetchGotOtherStatus(2)

\* C10 (as claimed): every analyzer call receives the prompt of the session's
\* selected analysis type and complexity (st.session_state.analysis_type and
\* prompt_complexity), the one displayed as "Selected Prompt".
C10_AnalyzerGetsSelectedPrompt ==
    \A p \in Positions("llm") :
        /\ log[p].detail[1] = selected_prompt
        /\ log[p].detail[1] =
              (IF analysis_type = "Documentation"
               THEN DOCUMENTATION_PROMPTS[prompt_complexity]
               ELSE AI_DETECTION_PROMPTS[prompt_complexity])

====
